---- MODULE Spec2Model ----
(***************************************************************************)
(* Model of ZincUtils (src/python/twitter/pants/tasks/scala/zinc_utils.py): *)
(* the analysis-file copy/move helpers, the emptiness test, the            *)
(* relativize/localize rebasing calls and the scalac plugin resolver.      *)
(*                                                                         *)
(* File contents are texts: sequences of tokens.  A token is a path        *)
(* component, the keyword "products:" or the newline "\n"; a line of an    *)
(* analysis file is one path, written as its sequence of components.       *)
(* A shutil.copy into a file other callers can see takes two steps: the     *)
(* file is opened, which empties it, and then written.                     *)
(***************************************************************************)
EXTENDS Integers, Sequences, FiniteSets, TLC

VARIABLES
  self,          \* the fields of the ZincUtils instance set by __init__
  fs,            \* the filesystem: file path -> [exists, data]
  pc,            \* per caller: position inside relativize/localize
  call,          \* per caller: the arguments of the running call
  exit_code,     \* per caller: the local variable exit_code
  ret,           \* per caller: the value returned to the caller
  snap,          \* per caller: the caller's files when the call started
  zinc_calls,    \* every backend rebase call made: [cache, status]
  last,          \* the last helper call made: arguments, prior files, result
  rt,            \* the relativize-then-localize experiment
  plugin_names,  \* find_plugins: the requested set
  plugins,       \* find_plugins: the dict built by the scan
  idx,           \* find_plugins: position of the loop over _plugin_jars
  outcome        \* find_plugins: the value returned or the error raised

vars == <<self, fs, pc, call, exit_code, ret, snap, zinc_calls, last, rt,
          plugin_names, plugins, idx, outcome>>

(***************************************************************************)
(* Bounds                                                                  *)
(***************************************************************************)
MaxRelLen == 4      \* longest .relations text drawn for the emptiness test
MaxTextLen == 3     \* longest analysis text drawn for the round trip
MaxExit == 2        \* exit statuses of the backend are 0..MaxExit
MaxJars == 3        \* longest list of candidate plugin archives

(***************************************************************************)
(* Texts                                                                   *)
(***************************************************************************)
NL == "\n"

RECURSIVE TextsUpTo(_, _)
TextsUpTo(tokens, n) ==
  IF n = 0 THEN {<<>>}
  ELSE LET shorter == TextsUpTo(tokens, n - 1)
       IN  shorter \cup {Append(t, k) : t \in shorter, k \in tokens}

Take(text, n) == SubSeq(text, 1, IF n < Len(text) THEN n ELSE Len(text))

StartsWith(text, prefix) ==
  /\ Len(prefix) <= Len(text)
  /\ \A i \in 1..Len(prefix) : text[i] = prefix[i]

(***************************************************************************)
(* Files                                                                   *)
(***************************************************************************)
Absent == [exists |-> FALSE, data |-> <<>>]
File(text) == [exists |-> TRUE, data |-> text]

WsDir == <<"ws">>
AnalysisPath(dir, base) == [dir |-> dir, base |-> base, rel |-> FALSE]

\* path + '.relations'
Relations(path) == [path EXCEPT !.rel = TRUE]

\* os.path.exists
Exists(f, path) == f[path].exists

\* open(dst, 'wb') inside shutil.copy: dst exists and is empty
Truncate(f, dst) == [f EXCEPT ![dst] = File(<<>>)]

\* shutil.copy(src, dst): refuses to copy a file onto itself
CopyRaises(src, dst) == src = dst
shutil_copy(f, src, dst) == [f EXCEPT ![dst] = f[src]]

\* shutil.move(src, dst): os.rename; renaming a file to itself does nothing
shutil_move(f, src, dst) ==
  IF src = dst THEN f ELSE [f EXCEPT ![dst] = f[src], ![src] = Absent]

ApplyFunc(func, f, src, dst) ==
  IF func = "copy" THEN shutil_copy(f, src, dst) ELSE shutil_move(f, src, dst)

FuncRaises(func, src, dst) == func = "copy" /\ CopyRaises(src, dst)

\* copy_or_move_analysis with the sibling handled although src is missing
copy_or_move_analysis_anysrc(func, f, src, dst) ==
  LET f1 == IF Exists(f, src) THEN ApplyFunc(func, f, src, dst) ELSE f
      relations == Relations(src)
  IN  IF Exists(f, src) /\ FuncRaises(func, src, dst)
      THEN [fs |-> f, err |-> "shutil.Error"]
      ELSE IF Exists(f1, relations)
           THEN IF FuncRaises(func, relations, Relations(dst))
                THEN [fs |-> f1, err |-> "shutil.Error"]
                ELSE [fs |-> ApplyFunc(func, f1, relations, Relations(dst)),
                      err |-> "none"]
           ELSE [fs |-> f1, err |-> "none"]

\* copy_or_move_analysis(func, src, dst): the files afterwards and the error
copy_or_move_analysis(func, f, src, dst) ==
  IF Exists(f, src)
  THEN IF FuncRaises(func, src, dst)
       THEN [fs |-> f, err |-> "shutil.Error"]
       ELSE LET f1 == ApplyFunc(func, f, src, dst)
                relations == Relations(src)
            IN  IF Exists(f1, relations)
                THEN IF FuncRaises(func, relations, Relations(dst))
                     THEN [fs |-> f1, err |-> "shutil.Error"]
                     ELSE [fs |-> ApplyFunc(func, f1, relations, Relations(dst)),
                           err |-> "none"]
                ELSE [fs |-> f1, err |-> "none"]
  ELSE [fs |-> f, err |-> "none"]

_copy_analysis(f, src, dst) == copy_or_move_analysis("copy", f, src, dst)
_move_analysis(f, src, dst) == copy_or_move_analysis("move", f, src, dst)

\* empty_prefix = 'products:\n\n'
empty_prefix == <<"products:", NL, NL>>

\* is_nonempty_analysis looking at the analysis file instead of its sibling
is_nonempty_analysis_primary(f, path) ==
  IF ~Exists(f, path) THEN FALSE
  ELSE Take(f[Relations(path)].data, Len(empty_prefix)) # empty_prefix

is_nonempty_analysis(f, path) ==
  LET relfile == Relations(path)
  IN  IF ~Exists(f, relfile) THEN FALSE
      ELSE LET prefix == Take(f[relfile].data, Len(empty_prefix))
           IN  prefix # empty_prefix

(***************************************************************************)
(* Specification SpecFiles: the static helpers, each call one step         *)
(***************************************************************************)
HelperNames == {"a", "b"}
HelperPaths == {AnalysisPath(WsDir, n) : n \in HelperNames}
HelperFiles == HelperPaths \cup {Relations(p) : p \in HelperPaths}

RelTokens == {"products:", NL, "x"}
RelTexts == TextsUpTo(RelTokens, MaxRelLen)

\* an analysis naming a file under the build root and a placeholder path
SampleAnalysis(base) ==
  <<"pants", "ivy", base, NL, "PANTS_HOME_PLACEHOLDER", base>>
SampleRelations(base) == <<"products:", NL, base, NL>>

NoCall == [op |-> "none", src |-> AnalysisPath(WsDir, "a"),
           dst |-> AnalysisPath(WsDir, "a"), pre |-> <<>>,
           err |-> "none", result |-> FALSE]

Idle == "unused"

InitFiles ==
  /\ self = Idle
  /\ \E ra \in {Absent} \cup {File(t) : t \in RelTexts},
        ea, eb \in BOOLEAN,
        rb \in {Absent, File(empty_prefix), File(<<"products:", NL, "x">>)} :
       fs = [p \in HelperFiles |->
               IF p = AnalysisPath(WsDir, "a")
               THEN (IF ea THEN File(SampleAnalysis("a")) ELSE Absent)
               ELSE IF p = AnalysisPath(WsDir, "b")
               THEN (IF eb THEN File(SampleAnalysis("b")) ELSE Absent)
               ELSE IF p = Relations(AnalysisPath(WsDir, "a")) THEN ra
               ELSE rb]
  /\ pc = Idle /\ call = Idle /\ exit_code = Idle /\ ret = Idle /\ snap = Idle
  /\ zinc_calls = {}
  /\ last = NoCall
  /\ rt = Idle
  /\ plugin_names = Idle /\ plugins = Idle /\ idx = Idle /\ outcome = Idle

HelperFrame ==
  UNCHANGED <<self, pc, call, exit_code, ret, snap, zinc_calls, rt,
              plugin_names, plugins, idx, outcome>>

CopyAnalysis ==
  \E src \in HelperPaths, dst \in HelperPaths :
    LET r == _copy_analysis(fs, src, dst)
    IN  /\ fs' = r.fs
        /\ last' = [op |-> "copy", src |-> src, dst |-> dst, pre |-> fs,
                    err |-> r.err, result |-> FALSE]
        /\ HelperFrame

MoveAnalysis ==
  \E src \in HelperPaths, dst \in HelperPaths :
    LET r == _move_analysis(fs, src, dst)
    IN  /\ fs' = r.fs
        /\ last' = [op |-> "move", src |-> src, dst |-> dst, pre |-> fs,
                    err |-> r.err, result |-> FALSE]
        /\ HelperFrame

IsNonemptyAnalysis ==
  \E path \in HelperPaths :
    /\ last' = [op |-> "is_nonempty", src |-> path, dst |-> path, pre |-> fs,
                err |-> "none", result |-> is_nonempty_analysis(fs, path)]
    /\ UNCHANGED fs
    /\ HelperFrame

NextFiles == CopyAnalysis \/ MoveAnalysis \/ IsNonemptyAnalysis

SpecFiles == InitFiles /\ [][NextFiles]_vars

MissingSourceIsNoop ==
  last.op \in {"copy", "move"} =>
    LET pre == last.pre
        src == last.src
        dst == last.dst
    IN  /\ ~Exists(pre, src) =>
              /\ last.err = "none"
              /\ fs[dst] = pre[dst]
              /\ fs[Relations(dst)] = pre[Relations(dst)]
        /\ Exists(pre, src) =>
              /\ fs[dst] = pre[src]
              /\ fs[Relations(dst)] # pre[Relations(dst)]
                    => Exists(pre, Relations(src))

MissingSourceIsNoopWitness ==
  /\ last.op = "copy"
  /\ ~Exists(last.pre, last.src)
  /\ Exists(last.pre, Relations(last.src))
  /\ Exists(last.pre, Relations(last.dst))
  /\ last.src # last.dst


(***************************************************************************)
(* The backend's rebase mode and the two rebasing calls                    *)
(***************************************************************************)
IVY_HOME_PLACEHOLDER == <<"IVY_HOME_PLACEHOLDER">>
PANTS_HOME_PLACEHOLDER == <<"PANTS_HOME_PLACEHOLDER">>

\* the instances: java_home, ivy_home and pants_home as paths
Homes ==
  { [java_home |-> <<"jvm">>, ivy_home |-> <<"ivy">>, pants_home |-> <<"pants">>],
    [java_home |-> <<"jvm">>, ivy_home |-> <<"pants", "ivy">>,
     pants_home |-> <<"pants">>],
    [java_home |-> <<"pants", "jvm">>, ivy_home |-> <<"ivy">>,
     pants_home |-> <<"pants">>],
    [java_home |-> <<"jvm">>, ivy_home |-> <<"pants">>,
     pants_home |-> <<"pants">>] }

relativize_rebasings(s) ==
  << <<s.java_home, <<>>>>,
     <<s.ivy_home, IVY_HOME_PLACEHOLDER>>,
     <<s.pants_home, PANTS_HOME_PLACEHOLDER>> >>

\* the two placeholders restored to each other's root
localize_rebasings_swapped(s) ==
  << <<IVY_HOME_PLACEHOLDER, s.pants_home>>,
     <<PANTS_HOME_PLACEHOLDER, s.ivy_home>> >>

localize_rebasings(s) ==
  << <<IVY_HOME_PLACEHOLDER, s.ivy_home>>,
     <<PANTS_HOME_PLACEHOLDER, s.pants_home>> >>

Rebasings(s, op) ==
  IF op = "relativize" THEN relativize_rebasings(s) ELSE localize_rebasings(s)

\* the orders in which the backend may try n rebasings
Orders(n) ==
  {o \in [1..n -> 1..n] : \A i, j \in 1..n : i # j => o[i] # o[j]}

\* one path, rewritten by the first rebasing (in the order tried) whose
\* rebase_from is a prefix of it
RECURSIVE RebasePath(_, _, _, _)
RebasePath(path, rebasings, order, k) ==
  IF k > Len(order) THEN path
  ELSE LET from == rebasings[order[k]][1]
           to == rebasings[order[k]][2]
       IN  IF StartsWith(path, from)
           THEN to \o SubSeq(path, Len(from) + 1, Len(path))
           ELSE RebasePath(path, rebasings, order, k + 1)

\* the text line by line; cur is the line read so far
RECURSIVE RebaseLines(_, _, _, _)
RebaseLines(text, cur, rebasings, order) ==
  IF text = <<>> THEN RebasePath(cur, rebasings, order, 1)
  ELSE IF Head(text) = NL
       THEN RebasePath(cur, rebasings, order, 1) \o <<NL>>
              \o RebaseLines(Tail(text), <<>>, rebasings, order)
       ELSE RebaseLines(Tail(text), Append(cur, Head(text)), rebasings, order)

RebaseText(text, rebasings, order) == RebaseLines(text, <<>>, rebasings, order)

\* -mirror-analysis: the relations index written next to a rewritten analysis
MirrorRelations(text) == <<"products:", NL>> \o text \o <<NL>>

\* run_zinc_rebase(analysis_file, rebasings): the files afterwards and the
\* exit status; status and order are the backend's
run_zinc_rebase(f, analysis_file, rebasings, status, order) ==
  IF status = 0 /\ Exists(f, analysis_file)
  THEN LET text == RebaseText(f[analysis_file].data, rebasings, order)
       IN  [fs |-> [f EXCEPT ![analysis_file] = File(text),
                             ![Relations(analysis_file)] =
                                File(MirrorRelations(text))],
            exit_code |-> status]
  ELSE [fs |-> f, exit_code |-> status]

\* temporary_dir() handing every call the same directory
SharedTmpDir(p) == <<"tmp", "t1">>
\* temporary_dir() and os.path.join(tmp_analysis_dir, "analysis")
TmpDir(p) == <<"tmp", p>>
tmp_analysis_file(p) == AnalysisPath(TmpDir(p), "analysis")

\* the file handed to the backend: the caller's own src
RebaseTargetInPlace(p, src) == src
\* the file handed to the backend: the private copy
RebaseTarget(p, src) == tmp_analysis_file(p)

\* `if not exit_code` ignored
AlwaysCopiesBack(code) == TRUE
\* `if not exit_code`
CopiesBack(code) == code = 0

\* leaving the with block removes the temporary directory
RemoveTmpDir(f, p) ==
  [q \in DOMAIN f |-> IF q.dir = TmpDir(p) THEN Absent ELSE f[q]]

\* relativize_analysis_file / localize_analysis_file run without interruption
rebase_analysis_file(f, s, p, op, src, dst, status, order) ==
  LET f1 == _copy_analysis(f, src, tmp_analysis_file(p)).fs
      r == run_zinc_rebase(f1, RebaseTarget(p, src), Rebasings(s, op),
                           status, order)
      f2 == IF CopiesBack(r.exit_code)
            THEN _copy_analysis(r.fs, tmp_analysis_file(p), dst).fs
            ELSE r.fs
  IN  [fs |-> RemoveTmpDir(f2, p), ret |-> r.exit_code]

relativize_analysis_file(f, s, p, src, dst, status, order) ==
  rebase_analysis_file(f, s, p, "relativize", src, dst, status, order)

localize_analysis_file(f, s, p, src, dst, status, order) ==
  rebase_analysis_file(f, s, p, "localize", src, dst, status, order)

(***************************************************************************)
(* Specifications Spec and SpecConcurrent: callers of relativize/localize, *)
(* one filesystem operation or backend call per step                       *)
(***************************************************************************)
Callers == {"t1"}
ConcurrentCallers == {"t1", "t2"}
Names == {"a", "b"}
ConcurrentNames == {"a", "b", "c"}

NoExit == -1
PairStates == {"absent", "bare", "paired"}

WsPaths(f) == {q \in DOMAIN f : q.dir = WsDir /\ ~q.rel}

FilesOf(names, callers) ==
  LET paths == {AnalysisPath(WsDir, n) : n \in names}
                 \cup {tmp_analysis_file(p) : p \in callers}
  IN  paths \cup {Relations(q) : q \in paths}

InitialFile(q, state) ==
  IF q.dir # WsDir \/ state = "absent" THEN Absent
  ELSE IF ~q.rel THEN File(SampleAnalysis(q.base))
  ELSE IF state = "paired" THEN File(SampleRelations(q.base))
  ELSE Absent

\* the caller's files, without the temporary directories
Workspace(f) == [q \in {x \in DOMAIN f : x.dir = WsDir} |-> f[q]]

InitCallers(callers, names, states, homes) ==
  /\ self \in homes
  /\ \E st \in [names -> states] :
       fs = [q \in FilesOf(names, callers) |-> InitialFile(q, st[q.base])]
  /\ pc = [p \in callers |-> "idle"]
  /\ call = [p \in callers |->
               [op |-> "none", src |-> AnalysisPath(WsDir, "a"),
                dst |-> AnalysisPath(WsDir, "a")]]
  /\ exit_code = [p \in callers |-> NoExit]
  /\ ret = [p \in callers |-> NoExit]
  /\ snap = [p \in callers |-> <<>>]
  /\ zinc_calls = {}
  /\ last = NoCall
  /\ rt = Idle
  /\ plugin_names = Idle /\ plugins = Idle /\ idx = Idle /\ outcome = Idle

Init == InitCallers(Callers, Names, PairStates, Homes)
InitConcurrent ==
  InitCallers(ConcurrentCallers, ConcurrentNames, {"absent", "paired"},
              {s \in Homes : Len(s.ivy_home) > 1})

CallerFrame ==
  UNCHANGED <<self, last, rt, plugin_names, plugins, idx, outcome>>

\* entering relativize_analysis_file or localize_analysis_file:
\* `with temporary_dir() as tmp_analysis_dir`
StartCall(p) ==
  /\ pc[p] = "idle"
  /\ \E op \in {"relativize", "localize"}, src \in WsPaths(fs),
        dst \in WsPaths(fs) :
       call' = [call EXCEPT ![p] = [op |-> op, src |-> src, dst |-> dst]]
  /\ snap' = [snap EXCEPT ![p] = Workspace(fs)]
  /\ pc' = [pc EXCEPT ![p] = "copy_src"]
  /\ UNCHANGED <<fs, exit_code, ret, zinc_calls>>
  /\ CallerFrame

\* _copy_analysis(src, tmp_analysis_file): the analysis file
CopySrcStep(p) ==
  /\ pc[p] = "copy_src"
  /\ IF Exists(fs, call[p].src)
     THEN /\ fs' = shutil_copy(fs, call[p].src, tmp_analysis_file(p))
          /\ pc' = [pc EXCEPT ![p] = "copy_src_relations"]
     ELSE /\ fs' = fs
          /\ pc' = [pc EXCEPT ![p] = "rebase"]
  /\ UNCHANGED <<call, exit_code, ret, snap, zinc_calls>>
  /\ CallerFrame

\* _copy_analysis(src, tmp_analysis_file): the relations sibling
CopySrcRelationsStep(p) ==
  /\ pc[p] = "copy_src_relations"
  /\ fs' = IF Exists(fs, Relations(call[p].src))
           THEN shutil_copy(fs, Relations(call[p].src),
                            Relations(tmp_analysis_file(p)))
           ELSE fs
  /\ pc' = [pc EXCEPT ![p] = "rebase"]
  /\ UNCHANGED <<call, exit_code, ret, snap, zinc_calls>>
  /\ CallerFrame

\* exit_code = self.run_zinc_rebase(tmp_analysis_file, rebasings)
RunZincRebaseStep(p) ==
  /\ pc[p] = "rebase"
  /\ LET rebasings == Rebasings(self, call[p].op)
         cache == RebaseTarget(p, call[p].src)
     IN  \E status \in 0..MaxExit, order \in Orders(Len(rebasings)) :
           LET r == run_zinc_rebase(fs, cache, rebasings, status, order)
           IN  /\ fs' = r.fs
               /\ exit_code' = [exit_code EXCEPT ![p] = r.exit_code]
               /\ zinc_calls' = zinc_calls
                    \cup {[cache |-> cache, status |-> status]}
               /\ pc' = [pc EXCEPT ![p] = IF CopiesBack(r.exit_code)
                                          THEN "copy_tmp" ELSE "return"]
  /\ UNCHANGED <<call, ret, snap>>
  /\ CallerFrame

\* _copy_analysis(tmp_analysis_file, dst), the analysis file: shutil.copy
\* opens dst for writing, which empties it
OpenDstStep(p) ==
  /\ pc[p] = "copy_tmp"
  /\ IF Exists(fs, tmp_analysis_file(p))
     THEN /\ fs' = Truncate(fs, call[p].dst)
          /\ pc' = [pc EXCEPT ![p] = "write_dst"]
     ELSE /\ fs' = fs
          /\ pc' = [pc EXCEPT ![p] = "return"]
  /\ UNCHANGED <<call, exit_code, ret, snap, zinc_calls>>
  /\ CallerFrame

\* ... and then writes the content of the temporary file into it
WriteDstStep(p) ==
  /\ pc[p] = "write_dst"
  /\ fs' = shutil_copy(fs, tmp_analysis_file(p), call[p].dst)
  /\ pc' = [pc EXCEPT ![p] = "copy_tmp_relations"]
  /\ UNCHANGED <<call, exit_code, ret, snap, zinc_calls>>
  /\ CallerFrame

\* _copy_analysis(tmp_analysis_file, dst), the relations sibling: opened
OpenDstRelationsStep(p) ==
  /\ pc[p] = "copy_tmp_relations"
  /\ IF Exists(fs, Relations(tmp_analysis_file(p)))
     THEN /\ fs' = Truncate(fs, Relations(call[p].dst))
          /\ pc' = [pc EXCEPT ![p] = "write_dst_relations"]
     ELSE /\ fs' = fs
          /\ pc' = [pc EXCEPT ![p] = "return"]
  /\ UNCHANGED <<call, exit_code, ret, snap, zinc_calls>>
  /\ CallerFrame

\* ... and written
WriteDstRelationsStep(p) ==
  /\ pc[p] = "write_dst_relations"
  /\ fs' = shutil_copy(fs, Relations(tmp_analysis_file(p)),
                       Relations(call[p].dst))
  /\ pc' = [pc EXCEPT ![p] = "return"]
  /\ UNCHANGED <<call, exit_code, ret, snap, zinc_calls>>
  /\ CallerFrame

\* return exit_code, leaving the with block
ReturnStep(p) ==
  /\ pc[p] = "return"
  /\ ret' = [ret EXCEPT ![p] = exit_code[p]]
  /\ fs' = RemoveTmpDir(fs, p)
  /\ pc' = [pc EXCEPT ![p] = "done"]
  /\ UNCHANGED <<call, exit_code, snap, zinc_calls>>
  /\ CallerFrame

\* the caller gets ready for another call
NextCallStep(p) ==
  /\ pc[p] = "done"
  /\ pc' = [pc EXCEPT ![p] = "idle"]
  /\ exit_code' = [exit_code EXCEPT ![p] = NoExit]
  /\ ret' = [ret EXCEPT ![p] = NoExit]
  /\ zinc_calls' = {}
  /\ UNCHANGED <<fs, call, snap>>
  /\ CallerFrame

Start == \E p \in DOMAIN pc : StartCall(p)
CopySrc == \E p \in DOMAIN pc : CopySrcStep(p)
CopySrcRelations == \E p \in DOMAIN pc : CopySrcRelationsStep(p)
RunZincRebase == \E p \in DOMAIN pc : RunZincRebaseStep(p)
OpenDst == \E p \in DOMAIN pc : OpenDstStep(p)
WriteDst == \E p \in DOMAIN pc : WriteDstStep(p)
OpenDstRelations == \E p \in DOMAIN pc : OpenDstRelationsStep(p)
WriteDstRelations == \E p \in DOMAIN pc : WriteDstRelationsStep(p)
Return == \E p \in DOMAIN pc : ReturnStep(p)
NextCall == \E p \in DOMAIN pc : NextCallStep(p)

NextConcurrent ==
  \/ Start \/ CopySrc \/ CopySrcRelations \/ RunZincRebase
  \/ OpenDst \/ WriteDst \/ OpenDstRelations \/ WriteDstRelations \/ Return

Next == NextConcurrent \/ NextCall

Spec == Init /\ [][Next]_vars
SpecConcurrent == InitConcurrent /\ [][NextConcurrent]_vars

Started(p) == pc[p] # "idle"
Dst(p) == call[p].dst
Src(p) == call[p].src

\* C1: when the backend rebase returns a non-zero status the call returns
\* that status, and dst and dst.relations are as they were before the call.
FailureLeavesDstUntouched ==
  \A p \in DOMAIN pc :
    (pc[p] \in {"return", "done"} /\ exit_code[p] # 0) =>
      /\ fs[Dst(p)] = snap[p][Dst(p)]
      /\ fs[Relations(Dst(p))] = snap[p][Relations(Dst(p))]
      /\ pc[p] = "done" =>
           /\ ret[p] # 0
           /\ \E z \in zinc_calls : z.status = ret[p]

FailureLeavesDstUntouchedWitness ==
  \E p \in DOMAIN pc :
    /\ pc[p] = "done" /\ ret[p] = MaxExit
    /\ Exists(fs, Dst(p)) /\ Exists(fs, Relations(Dst(p)))
    /\ Exists(fs, Src(p)) /\ Src(p) # Dst(p)

\* C2 as stated: src and src.relations are the same during and after every
\* call as before it, and the backend is only handed the temporary copy.
SourceAlwaysUntouched ==
  \A p \in DOMAIN pc :
    Started(p) =>
      /\ fs[Src(p)] = snap[p][Src(p)]
      /\ fs[Relations(Src(p))] = snap[p][Relations(Src(p))]
      /\ \A z \in zinc_calls : z.cache.dir # WsDir

\* C2 amended: the same, for calls whose dst is a different path from src.
SourceUntouched ==
  \A p \in DOMAIN pc :
    Started(p) =>
      /\ Src(p) # Dst(p) =>
           /\ fs[Src(p)] = snap[p][Src(p)]
           /\ fs[Relations(Src(p))] = snap[p][Relations(Src(p))]
      /\ \A z \in zinc_calls : z.cache.dir # WsDir

SourceUntouchedWitness ==
  \E p \in DOMAIN pc :
    /\ pc[p] = "done" /\ ret[p] = 0
    /\ Src(p) # Dst(p)
    /\ Exists(fs, Src(p)) /\ Exists(fs, Relations(Src(p)))
    /\ fs[Dst(p)] # snap[p][Dst(p)]

\* C3 as stated: once the backend has returned zero, dst and dst.relations
\* are at every moment either both as before the call or both the rewritten
\* temporary files.
DstPairAtomic ==
  \A p \in DOMAIN pc :
    (pc[p] \in {"copy_tmp", "write_dst", "copy_tmp_relations",
                "write_dst_relations", "return"}
       /\ exit_code[p] = 0) =>
      \/ /\ fs[Dst(p)] = snap[p][Dst(p)]
         /\ fs[Relations(Dst(p))] = snap[p][Relations(Dst(p))]
      \/ /\ fs[Dst(p)] = fs[tmp_analysis_file(p)]
         /\ fs[Relations(Dst(p))] = fs[Relations(tmp_analysis_file(p))]

\* the files a call started from, with an empty temporary directory
AloneFs(p) ==
  [q \in DOMAIN fs |-> IF q.dir = WsDir THEN snap[p][q] ELSE Absent]

\* the same files once the other calls have written their destinations
AfterOthersFs(p) ==
  [q \in DOMAIN fs |->
     IF q.dir # WsDir THEN Absent
     ELSE IF \E o \in DOMAIN pc \ {p} :
               pc[o] = "done" /\ q \in {Dst(o), Relations(Dst(o))}
     THEN fs[q]
     ELSE snap[p][q]]

\* the call of p ended as the whole call does when run alone on the files f
EndedAsAloneOn(p, f) ==
  \E order \in Orders(Len(Rebasings(self, call[p].op))) :
    LET alone == rebase_analysis_file(f, self, p, call[p].op,
                                      Src(p), Dst(p), exit_code[p], order)
    IN  /\ fs[Dst(p)] = alone.fs[Dst(p)]
        /\ fs[Relations(Dst(p))] = alone.fs[Relations(Dst(p))]
        /\ ret[p] = alone.ret

AllReturned == \A q \in DOMAIN pc : pc[q] \in {"idle", "done"}

DstsDiffer(p) ==
  \A q \in DOMAIN pc \ {p} : Started(q) => Dst(q) # Dst(p)

DstsApart(p) ==
  \A q \in DOMAIN pc \ {p} : Started(q) => Dst(q) \notin {Dst(p), Src(p)}

\* C8 as stated: calls with different destination paths end as if run alone,
\* before or after the other call, and no step writes a field of the
\* instance.
ReentrantForDifferentDsts ==
  /\ [](\A p \in DOMAIN pc :
          (pc[p] = "done" /\ AllReturned /\ DstsDiffer(p)) =>
            (EndedAsAloneOn(p, AloneFs(p)) \/ EndedAsAloneOn(p, AfterOthersFs(p))))
  /\ [][self' = self]_vars

\* C8 amended: calls whose destination paths differ from each other and from
\* the other call's src end as if run alone, and no step writes a field of
\* the instance.
Reentrant ==
  /\ [](\A p \in DOMAIN pc :
          (pc[p] = "done" /\ DstsApart(p)) => EndedAsAloneOn(p, AloneFs(p)))
  /\ [][self' = self]_vars

ReentrantWitness ==
  \E p, q \in DOMAIN pc :
    /\ p # q /\ pc[p] = "done" /\ pc[q] = "write_dst_relations"
    /\ ret[p] = 0 /\ DstsApart(p) /\ DstsApart(q)
    /\ Src(p) = Src(q) /\ Exists(fs, Src(p))
    /\ fs[Dst(p)] # snap[p][Dst(p)]

(***************************************************************************)
(* Specification SpecRoundTrip: relativize an analysis, then localize the  *)
(* result on the same machine; each call one step                          *)
(***************************************************************************)
PathTokens ==
  {"jvm", "ivy", "pants", "IVY_HOME_PLACEHOLDER", "PANTS_HOME_PLACEHOLDER",
   "x", NL}
AnalysisTexts == TextsUpTo(PathTokens, MaxTextLen)

Local == AnalysisPath(WsDir, "a")
Portable == AnalysisPath(WsDir, "b")
Restored == AnalysisPath(WsDir, "c")

InitRoundTrip ==
  /\ self \in Homes
  /\ \E A \in AnalysisTexts :
       /\ fs = [q \in FilesOf(ConcurrentNames, Callers) |->
                  IF q = Local THEN File(A)
                  ELSE IF q = Relations(Local) THEN File(MirrorRelations(A))
                  ELSE Absent]
       /\ rt = [stage |-> "start", original |-> A,
                ret1 |-> NoExit, ret2 |-> NoExit]
  /\ pc = Idle /\ call = Idle /\ exit_code = Idle /\ ret = Idle /\ snap = Idle
  /\ zinc_calls = {}
  /\ last = NoCall
  /\ plugin_names = Idle /\ plugins = Idle /\ idx = Idle /\ outcome = Idle

RoundTripFrame ==
  UNCHANGED <<self, pc, call, exit_code, ret, snap, zinc_calls, last,
              plugin_names, plugins, idx, outcome>>

Relativize ==
  /\ rt.stage = "start"
  /\ \E status \in 0..MaxExit, order \in Orders(Len(relativize_rebasings(self))) :
       LET r == relativize_analysis_file(fs, self, "t1", Local, Portable,
                                         status, order)
       IN  /\ fs' = r.fs
           /\ rt' = [rt EXCEPT !.stage = "relativized", !.ret1 = r.ret]
  /\ RoundTripFrame

Localize ==
  /\ rt.stage = "relativized"
  /\ \E status \in 0..MaxExit, order \in Orders(Len(localize_rebasings(self))) :
       LET r == localize_analysis_file(fs, self, "t1", Portable, Restored,
                                       status, order)
       IN  /\ fs' = r.fs
           /\ rt' = [rt EXCEPT !.stage = "localized", !.ret2 = r.ret]
  /\ RoundTripFrame

NextRoundTrip == Relativize \/ Localize

SpecRoundTrip == InitRoundTrip /\ [][NextRoundTrip]_vars

\* the lines of a text; cur is the line read so far
RECURSIVE LinesOf(_, _)
LinesOf(text, cur) ==
  IF text = <<>> THEN <<cur>>
  ELSE IF Head(text) = NL THEN <<cur>> \o LinesOf(Tail(text), <<>>)
  ELSE LinesOf(Tail(text), Append(cur, Head(text)))

UnderJvmRoot(path) == StartsWith(path, self.java_home)
UnderPlaceholder(path) ==
  StartsWith(path, IVY_HOME_PLACEHOLDER) \/ StartsWith(path, PANTS_HOME_PLACEHOLDER)

BothSucceeded == rt.stage = "localized" /\ rt.ret1 = 0 /\ rt.ret2 = 0

\* every line of the original that is not in `lost` is back in its place
RestoredExcept(lost(_)) ==
  LET before == LinesOf(rt.original, <<>>)
      after == LinesOf(fs[Restored].data, <<>>)
  IN  /\ Exists(fs, Restored)
      /\ Len(after) = Len(before)
      /\ \A i \in 1..Len(before) : ~lost(before[i]) => after[i] = before[i]
      /\ (\A i \in 1..Len(before) : ~lost(before[i]))
           => fs[Restored].data = rt.original

\* C4 as stated: when both rebase calls succeed, localize after relativize
\* gives back every path of the analysis except those under the JVM root, and
\* so the whole analysis when it has no path under the JVM root.
RoundTripModuloJvm ==
  BothSucceeded => RestoredExcept(UnderJvmRoot)

\* C4 amended: the same, except for paths under the JVM root and paths that
\* begin with one of the two placeholder tokens.
RoundTrip ==
  BothSucceeded =>
    RestoredExcept(LAMBDA path : UnderJvmRoot(path) \/ UnderPlaceholder(path))

RoundTripWitness ==
  /\ BothSucceeded
  /\ \A i \in 1..Len(LinesOf(rt.original, <<>>)) :
       LET path == LinesOf(rt.original, <<>>)[i]
       IN  ~UnderJvmRoot(path) /\ ~UnderPlaceholder(path)
  /\ fs[Portable].data # rt.original
  /\ StartsWith(rt.original, self.ivy_home)
  /\ Len(self.ivy_home) > 1

(***************************************************************************)
(* Specification SpecPlugins: find_plugins, one candidate archive per step *)
(***************************************************************************)
PluginNames == {"foo", "bar", "baz"}
DeclaredNames == {"foo", "bar"}

\* what jarfile.open(_PLUGIN_INFO_FILE) and ElementTree.parse find in a jar
NoEntry == [kind |-> "no entry", name |-> "none"]
WrongRoot == [kind |-> "wrong root tag", name |-> "none"]
NoNameChild == [kind |-> "no name child", name |-> "none"]
Plugin(n) == [kind |-> "plugin", name |-> n]
Descriptors ==
  {NoEntry, WrongRoot, NoNameChild} \cup {Plugin(n) : n \in DeclaredNames}

\* the candidate archives: distinct jars, inside and outside the build root
JarFiles == <<"p1.jar", "p2.jar", "p3.jar", "p4.jar", "p5.jar", "p6.jar">>
JarPath(i) ==
  IF i % 2 = 1 THEN <<"pants", "lib", JarFiles[i]>> ELSE <<"ivy", JarFiles[i]>>

\* os.path.relpath(path, start) for normalized absolute paths
RECURSIVE CommonLen(_, _)
CommonLen(path, start) ==
  IF path = <<>> \/ start = <<>> \/ Head(path) # Head(start) THEN 0
  ELSE 1 + CommonLen(Tail(path), Tail(start))

relpath(path, start) ==
  LET c == CommonLen(path, start)
  IN  [i \in 1..(Len(start) - c) |-> ".."] \o SubSeq(path, c + 1, Len(path))

NoError == [kind |-> "none", name |-> "none", first |-> <<>>, second |-> <<>>]

Bind(plugs, name, value) ==
  [n \in DOMAIN plugs \cup {name} |-> IF n = name THEN value ELSE plugs[n]]

\* the loop body with a later archive silently replacing an earlier one
scan_jar_last_wins(names, plugs, jar, info, pants_home) ==
  IF info.kind = "no entry" THEN [plugins |-> plugs, error |-> NoError]
  ELSE IF info.kind = "wrong root tag"
  THEN [plugins |-> plugs,
        error |-> [kind |-> "descriptor", name |-> "none",
                   first |-> <<>>, second |-> jar]]
  ELSE IF info.kind = "no name child"
  THEN [plugins |-> plugs,
        error |-> [kind |-> "attribute", name |-> "none",
                   first |-> <<>>, second |-> jar]]
  ELSE IF info.name \in names
  THEN [plugins |-> Bind(plugs, info.name, relpath(jar, pants_home)),
        error |-> NoError]
  ELSE [plugins |-> plugs, error |-> NoError]

\* the loop body with a later archive silently ignored
scan_jar_first_wins(names, plugs, jar, info, pants_home) ==
  IF info.kind = "plugin" /\ info.name \in DOMAIN plugs
  THEN [plugins |-> plugs, error |-> NoError]
  ELSE scan_jar_last_wins(names, plugs, jar, info, pants_home)

\* the body of `for jar in self._plugin_jars`: the dict afterwards and the
\* error raised, if any
scan_jar(names, plugs, jar, info, pants_home) ==
  IF info.kind = "no entry"
  THEN [plugins |-> plugs, error |-> NoError]
  ELSE IF info.kind = "wrong root tag"
  THEN [plugins |-> plugs,
        error |-> [kind |-> "descriptor", name |-> "none",
                   first |-> <<>>, second |-> jar]]
  ELSE IF info.kind = "no name child"
  THEN [plugins |-> plugs,
        error |-> [kind |-> "attribute", name |-> "none",
                   first |-> <<>>, second |-> jar]]
  ELSE LET name == info.name
       IN  IF name \in names
           THEN IF name \in DOMAIN plugs
                THEN [plugins |-> plugs,
                      error |-> [kind |-> "conflict", name |-> name,
                                 first |-> plugs[name], second |-> jar]]
                ELSE [plugins |-> Bind(plugs, name, relpath(jar, pants_home)),
                      error |-> NoError]
           ELSE [plugins |-> plugs, error |-> NoError]

\* the missing names reported one at a time
unresolved_plugins_first(names, plugs) ==
  LET missing == names \ DOMAIN plugs
  IN  IF missing = {} THEN {} ELSE {CHOOSE n \in missing : TRUE}

\* unresolved_plugins = plugin_names - set(plugins.keys())
unresolved_plugins(names, plugs) == names \ DOMAIN plugs

Running == [kind |-> "running", error |-> NoError, missing |-> {}]

InitPlugins ==
  /\ \E n \in 0..MaxJars :
       /\ self = [pants_home |-> <<"pants">>,
                  plugin_jars |-> [i \in 1..n |-> JarPath(i)]]
       /\ \E infos \in [1..n -> Descriptors] :
            fs = [jar \in {JarPath(i) : i \in 1..n} |->
                    infos[CHOOSE i \in 1..n : JarPath(i) = jar]]
  /\ plugin_names \in SUBSET PluginNames
  /\ plugins = <<>>
  /\ idx = 1
  /\ outcome = Running
  /\ pc = Idle /\ call = Idle /\ exit_code = Idle /\ ret = Idle /\ snap = Idle
  /\ zinc_calls = {}
  /\ last = NoCall
  /\ rt = Idle

PluginFrame ==
  UNCHANGED <<self, fs, pc, call, exit_code, ret, snap, zinc_calls, last, rt,
              plugin_names>>

\* one iteration of the loop over self._plugin_jars
ScanJar ==
  /\ outcome.kind = "running"
  /\ idx <= Len(self.plugin_jars)
  /\ LET jar == self.plugin_jars[idx]
         r == scan_jar(plugin_names, plugins, jar, fs[jar], self.pants_home)
     IN  /\ plugins' = r.plugins
         /\ IF r.error.kind = "none"
            THEN /\ idx' = idx + 1
                 /\ outcome' = outcome
            ELSE /\ idx' = idx
                 /\ outcome' = [kind |-> "raised", error |-> r.error,
                                missing |-> {}]
  /\ PluginFrame

\* after the loop: raise for the unresolved names or return plugins
FinishScan ==
  /\ outcome.kind = "running"
  /\ idx > Len(self.plugin_jars)
  /\ LET missing == unresolved_plugins(plugin_names, plugins)
     IN  outcome' = IF Cardinality(missing) > 0
                    THEN [kind |-> "raised",
                          error |-> [kind |-> "unresolved", name |-> "none",
                                     first |-> <<>>, second |-> <<>>],
                          missing |-> missing]
                    ELSE [kind |-> "returned", error |-> NoError,
                          missing |-> {}]
  /\ UNCHANGED <<plugins, idx>>
  /\ PluginFrame

NextPlugins == ScanJar \/ FinishScan

SpecPlugins == InitPlugins /\ [][NextPlugins]_vars

Jars == self.plugin_jars
Finished == outcome.kind # "running"
Declares(i, n) == fs[Jars[i]] = Plugin(n)
Malformed(i) == fs[Jars[i]].kind \in {"wrong root tag", "no name child"}

\* two different candidates declare the same name n
DeclaredTwice(n) ==
  \E i, j \in 1..Len(Jars) : i < j /\ Declares(i, n) /\ Declares(j, n)

\* the error is a conflict naming two candidates that both declare its name
ConflictNamesBoth ==
  /\ outcome.kind = "raised" /\ outcome.error.kind = "conflict"
  /\ \E i, j \in 1..Len(Jars) :
       /\ i < j
       /\ Declares(i, outcome.error.name) /\ Declares(j, outcome.error.name)
       /\ outcome.error.first = relpath(Jars[i], self.pants_home)
       /\ outcome.error.second = Jars[j]

\* C5 as stated: when two different archives declare a requested name,
\* find_plugins fails with a conflict error naming both archives of a
\* repeated name, and never returns a mapping.
DuplicateAlwaysConflict ==
  (Finished /\ \E n \in plugin_names : DeclaredTwice(n)) => ConflictNamesBoth

\* C5 amended: when two different archives declare a requested name,
\* find_plugins never returns a mapping; it fails with the conflict error
\* naming both archives of a repeated requested name, unless a candidate with
\* a malformed descriptor is met first, and then with that descriptor's error.
DuplicateNeverPicked ==
  (Finished /\ \E n \in plugin_names : DeclaredTwice(n)) =>
    /\ outcome.kind = "raised"
    /\ outcome.error.kind \in {"conflict", "descriptor", "attribute"}
    /\ outcome.error.kind = "conflict" =>
         (ConflictNamesBoth /\ outcome.error.name \in plugin_names)
    /\ outcome.error.kind # "conflict" =>
         (Malformed(idx) /\ outcome.error.second = Jars[idx])
    /\ (\A i \in 1..Len(Jars) : ~Malformed(i)) => ConflictNamesBoth

DuplicateNeverPickedWitness ==
  /\ ConflictNamesBoth
  /\ idx = Len(Jars) /\ idx > 2
  /\ outcome.error.first # outcome.error.second
  /\ Head(outcome.error.first) = ".."

AllDeclared == {n \in DeclaredNames : \E i \in 1..Len(Jars) : Declares(i, n)}

\* C6: a scan that meets no malformed descriptor and no conflict looks at
\* every candidate and then either raises one error listing exactly the
\* requested names that no archive declares, or, when there are none, returns
\* a mapping whose keys are exactly the requested names.
MissingReportedTogether ==
  (Finished /\ outcome.error.kind \notin {"conflict", "descriptor", "attribute"}) =>
    /\ idx = Len(Jars) + 1
    /\ IF plugin_names \ AllDeclared # {}
       THEN /\ outcome.kind = "raised"
            /\ outcome.error.kind = "unresolved"
            /\ outcome.missing = plugin_names \ AllDeclared
       ELSE /\ outcome.kind = "returned"
            /\ DOMAIN plugins = plugin_names

MissingReportedTogetherWitness ==
  /\ outcome.kind = "raised" /\ outcome.error.kind = "unresolved"
  /\ Cardinality(outcome.missing) = 2
  /\ Cardinality(DOMAIN plugins) = 1
  /\ Len(Jars) > 1

\* C7 as stated: when two different archives declare the same name, requested
\* or not, find_plugins fails.
AnyDuplicateFails ==
  (Finished /\ \E n \in DeclaredNames : DeclaredTwice(n)) =>
    outcome.kind = "raised"

\* C7 amended: when two different archives declare the same name and that
\* name is requested, find_plugins fails; a conflict is only ever raised for
\* a requested name.
RequestedDuplicateFails ==
  /\ (Finished /\ \E n \in DeclaredNames \cap plugin_names : DeclaredTwice(n))
       => outcome.kind = "raised"
  /\ outcome.error.kind = "conflict" =>
       (outcome.error.name \in plugin_names /\ DeclaredTwice(outcome.error.name))

RequestedDuplicateFailsWitness ==
  /\ outcome.kind = "raised" /\ outcome.error.kind = "conflict"
  /\ \E i \in 1..(idx - 1) :
       \E n \in DeclaredNames \ plugin_names : Declares(i, n)
  /\ \A i \in 1..Len(Jars) : ~Malformed(i)

====
